---- MODULE Spec2Model ----
(***************************************************************************)
(* Model of the RAG ingestion scripts (scripts/rag): the line-aware        *)
(* splitter LineAwareSplitter.split_documents, the document builders with  *)
(* the component registry, and ingest with its chunk-profile selection.    *)
(*                                                                         *)
(* Text is modelled character by character: a string is a sequence of      *)
(* one-character strings over the alphabet Chars, so that len(), join(),   *)
(* splitlines() and rstrip() are computed, not assumed.                    *)
(***************************************************************************)
EXTENDS Integers, Sequences, FiniteSets, TLC

(***************************************************************************)
(* Bounds of the model.                                                    *)
(***************************************************************************)
MaxContentLen == 5
MaxChunkChars == 4
MaxRepeats == 1

NL == "\n"
SP == " "
Chars == {"a", SP, NL}
Whitespace == {SP, NL}

(***************************************************************************)
(* Python string and dict primitives used by the scripts.                  *)
(***************************************************************************)
RECURSIVE StrOfLen(_)
StrOfLen(n) ==
    IF n = 0 THEN {<<>>}
    ELSE {Append(s, c) : s \in StrOfLen(n - 1), c \in Chars}

Contents == UNION {StrOfLen(n) : n \in 0..MaxContentLen}

\* str.splitlines(): the pieces between line breaks, no empty last piece
\* after a final line break.
RECURSIVE SplitLinesFrom(_, _, _)
SplitLinesFrom(s, p, acc) ==
    IF p > Len(s) THEN (IF acc = <<>> THEN <<>> ELSE <<acc>>)
    ELSE IF s[p] = NL THEN <<acc>> \o SplitLinesFrom(s, p + 1, <<>>)
    ELSE SplitLinesFrom(s, p + 1, Append(acc, s[p]))

SplitLines(s) == SplitLinesFrom(s, 1, <<>>)

\* "\n".join(ls)
RECURSIVE Join(_)
Join(ls) ==
    IF ls = <<>> THEN <<>>
    ELSE IF Len(ls) = 1 THEN ls[1]
    ELSE ls[1] \o <<NL>> \o Join(Tail(ls))

\* str.rstrip()
RECURSIVE RStrip(_)
RStrip(s) ==
    IF s = <<>> THEN <<>>
    ELSE IF s[Len(s)] \in Whitespace THEN RStrip(SubSeq(s, 1, Len(s) - 1))
    ELSE s

\* sum(len(l) + 1 for l in ls)
RECURSIVE LenSum(_)
LenSum(ls) ==
    IF ls = <<>> THEN 0 ELSE Len(ls[1]) + 1 + LenSum(Tail(ls))

\* dict.get(key, default)
DictGet(meta, key, default) ==
    IF key \in DOMAIN meta THEN meta[key] ELSE default

\* meta[key] = val
DictSet(meta, key, val) ==
    [x \in (DOMAIN meta) \cup {key} |-> IF x = key THEN val ELSE meta[x]]

\* str.lower(), on the letters that occur in the modelled paths.
LowerChar(c) ==
    CASE c = "T" -> "t"
      [] c = "S" -> "s"
      [] c = "M" -> "m"
      [] c = "D" -> "d"
      [] c = "P" -> "p"
      [] c = "A" -> "a"
      [] c = "B" -> "b"
      [] OTHER   -> c

Lower(s) == [x \in DOMAIN s |-> LowerChar(s[x])]

\* pattern in text
Contains(text, pattern) ==
    \E off \in 0..(Len(text) - Len(pattern)) :
        SubSeq(text, off + 1, off + Len(pattern)) = pattern

\* Position of the last occurrence of the character c in s, 0 when absent.
RECURSIVE LastIndexOf(_, _, _)
LastIndexOf(s, c, p) ==
    IF p = 0 THEN 0
    ELSE IF s[p] = c THEN p
    ELSE LastIndexOf(s, c, p - 1)

\* Path(path).name
BaseName(path) ==
    SubSeq(path, LastIndexOf(path, "/", Len(path)) + 1, Len(path))

\* Path(path).suffix: the last dot-separated part of the name, with its dot;
\* empty when the only dot leads or ends the name.
Suffix(path) ==
    LET name == BaseName(path)
        dot  == LastIndexOf(name, ".", Len(name))
    IN  IF dot > 1 /\ dot < Len(name) THEN SubSeq(name, dot, Len(name))
        ELSE <<>>

\* Letters and digits of the modelled names.
UpperLetters == {"A", "B"}
LowerLetters == {"a", "b"}
Digits == {"1"}

\* str.upper() of one character, on the letters of the modelled names.
UpperChar(c) ==
    CASE c = "a" -> "A"
      [] c = "b" -> "B"
      [] OTHER   -> c

\* str.capitalize()
Capitalize(w) ==
    [x \in DOMAIN w |-> IF x = 1 THEN UpperChar(w[x]) ELSE LowerChar(w[x])]

\* str.isidentifier()
IsIdentifier(name) ==
    /\ name # <<>>
    /\ name[1] \in UpperLetters \cup LowerLetters \cup {"_"}
    /\ \A x \in DOMAIN name :
           name[x] \in UpperLetters \cup LowerLetters \cup Digits \cup {"_"}

\* re.match(r'^[A-Z][A-Za-z0-9]*$', name)
IsPascalCase(name) ==
    /\ name # <<>>
    /\ name[1] \in UpperLetters
    /\ \A x \in DOMAIN name :
           name[x] \in UpperLetters \cup LowerLetters \cup Digits

\* ord(c), on the characters of the modelled names.
Ord(c) ==
    CASE c = " " -> 32
      [] c = "$" -> 36
      [] c = "," -> 44
      [] c = "-" -> 45
      [] c = "1" -> 49
      [] c = "A" -> 65
      [] c = "B" -> 66
      [] c = "_" -> 95
      [] c = "a" -> 97
      [] c = "b" -> 98

\* a < b for two strings
RECURSIVE StrLess(_, _)
StrLess(a, b) ==
    IF b = <<>> THEN FALSE
    ELSE IF a = <<>> THEN TRUE
    ELSE IF a[1] = b[1] THEN StrLess(Tail(a), Tail(b))
    ELSE Ord(a[1]) < Ord(b[1])

\* sorted(names), for a set of strings
RECURSIVE Sorted(_)
Sorted(names) ==
    IF names = {} THEN <<>>
    ELSE LET least == CHOOSE n \in names :
                          \A other \in names \ {n} : StrLess(n, other)
         IN  <<least>> \o Sorted(names \ {least})

\* ", ".join(ls)
RECURSIVE JoinComma(_)
JoinComma(ls) ==
    IF ls = <<>> THEN <<>>
    ELSE IF Len(ls) = 1 THEN ls[1]
    ELSE ls[1] \o <<",", " ">> \o JoinComma(Tail(ls))

\* word.split('-')
RECURSIVE SplitDashFrom(_, _, _)
SplitDashFrom(w, p, acc) ==
    IF p > Len(w) THEN <<acc>>
    ELSE IF w[p] = "-" THEN <<acc>> \o SplitDashFrom(w, p + 1, <<>>)
    ELSE SplitDashFrom(w, p + 1, Append(acc, w[p]))

\* ''.join(word.capitalize() for word in token.split('-'))
RECURSIVE ConcatCapitalized(_)
ConcatCapitalized(words) ==
    IF words = <<>> THEN <<>>
    ELSE Capitalize(words[1]) \o ConcatCapitalized(Tail(words))

PascalCase(token) == ConcatCapitalized(SplitDashFrom(token, 1, <<>>))

\* Python values whose type is not fixed by the code: front-matter fields,
\* members of the component sets, keys of the registry.
PyNone == [t |-> "NoneType"]
PyBool(b) == [t |-> "bool", v |-> b]
PyInt(n) == [t |-> "int", v |-> n]
PyStr(str) == [t |-> "str", v |-> str]
PyList(l) == [t |-> "list", v |-> l]

\* bool(x)
Truthy(x) ==
    CASE x.t = "NoneType" -> FALSE
      [] x.t = "bool" -> x.v
      [] x.t = "int" -> x.v # 0
      [] x.t \in {"str", "list"} -> x.v # <<>>

\* x is True or x is False
IsBoolObject(x) == x.t = "bool"

\* isinstance(x, str)
IsStr(x) == x.t = "str"

\* hash(x) does not raise
Hashable(x) == x.t # "list"

\* {} and dict.setdefault(key, set()).add(item)
EmptyDict == [x \in {} |-> 0]

SetDefaultAdd(dict, key, item) ==
    DictSet(dict, key, DictGet(dict, key, {}) \cup {item})

(***************************************************************************)
(* config.py                                                               *)
(***************************************************************************)
DEFAULT_CHUNK_CHARS == 4000
DEFAULT_CHUNK_OVERLAP == 400
TS_CHUNK_CHARS == 6000
TS_CHUNK_OVERLAP == 600
DOCS_CHUNK_CHARS == 8000
DOCS_CHUNK_OVERLAP == 800
EXAMPLE_CHUNK_CHARS == 10000
EXAMPLE_CHUNK_OVERLAP == 1000

PropsTs == <<"P", "r", "o", "p", "s", ".", "t", "s">>
PROPS_FILE_PATTERNS == <<PropsTs, PropsTs \o <<"x">> >>

ExtMd == <<".", "m", "d">>
ExtMdx == <<".", "m", "d", "x">>
ExtTs == <<".", "t", "s">>
ExtTsx == <<".", "t", "s", "x">>
ExtJs == <<".", "j", "s">>
ExtJsx == <<".", "j", "s", "x">>
ExtCss == <<".", "c", "s", "s">>
ExtScss == <<".", "s", "c", "s", "s">>
ExtSass == <<".", "s", "a", "s", "s">>
ExtJson == <<".", "j", "s", "o", "n">>
ExtHtml == <<".", "h", "t", "m", "l">>

\* DEFAULT_INCLUDE_EXTS, a set in the code: the patterns of an example
\* project are built in the iteration order of that set, which the code
\* leaves open; the model iterates in the order of the source line.
DEFAULT_INCLUDE_EXTS ==
    <<ExtTs, ExtTsx, ExtJs, ExtJsx, ExtCss, ExtScss, ExtSass, ExtMd, ExtMdx,
      ExtJson, ExtHtml>>

(***************************************************************************)
(* State.                                                                  *)
(*   self_chunk_size, self_chunk_overlap                                   *)
(*       _chunk_size and _chunk_overlap of the LineAwareSplitter whose     *)
(*       split_documents is running                                        *)
(*   d   the Document being split                                          *)
(*   lines, current, current_len, start_line_idx, i, out                   *)
(*       the locals of split_documents                                     *)
(*   chunk_chars, chunk_overlap, dry_run    arguments of ingest            *)
(*   all_docs, chunks                       locals of ingest               *)
(*   k        position of the loop "for doc in all_docs"                   *)
(*   nfiles   number of files handed to the processors so far              *)
(*   db_created, db_docs   the vector database: whether create_database    *)
(*       was called and the Documents handed to the vector store           *)
(*   component_counts, component_files     the component registry         *)
(*   docs_stats                             the statistics of the docs     *)
(*   p        the file at hand in the loop of build_documents              *)
(*   example_dir   the project at hand in the loop over ./examples         *)
(*   pc       position of the program; "raised" when an exception has      *)
(*       left ingest                                                       *)
(***************************************************************************)
VARIABLES self_chunk_size, self_chunk_overlap, d, lines, current, current_len,
          start_line_idx, i, out,
          chunk_chars, chunk_overlap, dry_run, all_docs, chunks, k, nfiles,
          db_created, db_docs, component_counts, component_files, docs_stats,
          p, example_dir, retrieved, context, pc

splitVars == <<self_chunk_size, self_chunk_overlap, d, lines, current,
               current_len, start_line_idx, i, out>>

registryVars == <<component_counts, component_files, docs_stats>>

loopVars == <<p, example_dir>>

retrieveVars == <<retrieved, context>>

ingestVars == <<chunk_chars, chunk_overlap, dry_run, all_docs, chunks, k,
                nfiles, db_created, db_docs, registryVars, loopVars,
                retrieveVars>>

\* The loop variable before and after its loop.
NoPath == [relpath |-> <<>>]

vars == <<splitVars, ingestVars, pc>>

\* Document(page_content=..., metadata=...)
Document(text, meta) == [page_content |-> text, metadata |-> meta]

(***************************************************************************)
(* LineAwareSplitter.split_documents, for a one-element list of Documents  *)
(* (ingest always passes [doc]).                                           *)
(***************************************************************************)

\* The backward scan that collects the overlap lines of a closed buffer.
RECURSIVE OverlapScan(_, _, _, _)
OverlapScan(cur, j, remaining, overlap_lines) ==
    IF j >= 1 /\ remaining > 0
    THEN OverlapScan(cur, j - 1, remaining - (Len(cur[j]) + 1),
                     <<cur[j]>> \o overlap_lines)
    ELSE overlap_lines

\* Variant of the scan that goes on while remaining >= 0.
RECURSIVE OverlapScanInclusive(_, _, _, _)
OverlapScanInclusive(cur, j, remaining, overlap_lines) ==
    IF j >= 1 /\ remaining >= 0
    THEN OverlapScanInclusive(cur, j - 1, remaining - (Len(cur[j]) + 1),
                              <<cur[j]>> \o overlap_lines)
    ELSE overlap_lines

OverlapLinesInclusive(cur, overlap) ==
    OverlapScanInclusive(cur, Len(cur), overlap, <<>>)

\* Variant of the carry-over that always keeps the last line of the buffer.
OverlapLinesKeepLast(cur, overlap) == <<cur[Len(cur)]>>

OverlapLines(cur, overlap) == OverlapScan(cur, Len(cur), overlap, <<>>)

\* Variant that restarts the line count at the current line, without the
\* carried lines.
StartAfterCarryIgnoringCarry(idx, cur) == idx

\* Variant that restarts the line count one line after the current line.
StartAfterCarrySkippingLine(idx, cur) == idx + 1 - Len(cur)

\* start_line_idx of the buffer cur seeded while the scan stands at line idx.
StartAfterCarry(idx, cur) == idx - Len(cur)

\* Variant that records the 0-based end index as end_line.
MakeChunkEndZeroBased(doc, cur, s) ==
    LET chunk_text   == RStrip(Join(cur))
        end_line_idx == s + Len(cur) - 1
        m1 == DictSet(doc.metadata, "start_line",
                      DictGet(doc.metadata, "start_line", s + 1))
        m2 == DictSet(m1, "end_line",
                      DictGet(m1, "end_line", end_line_idx))
    IN  Document(chunk_text, m2)

\* Variant that records the 0-based start index as start_line.
MakeChunkStartZeroBased(doc, cur, s) ==
    LET chunk_text   == RStrip(Join(cur))
        end_line_idx == s + Len(cur) - 1
        m1 == DictSet(doc.metadata, "start_line",
                      DictGet(doc.metadata, "start_line", s))
        m2 == DictSet(m1, "end_line",
                      DictGet(m1, "end_line", end_line_idx + 1))
    IN  Document(chunk_text, m2)

\* Variant that always writes the computed range over the annotations.
MakeChunkOverwriting(doc, cur, s) ==
    LET chunk_text   == RStrip(Join(cur))
        end_line_idx == s + Len(cur) - 1
        m1 == DictSet(doc.metadata, "start_line", s + 1)
        m2 == DictSet(m1, "end_line", end_line_idx + 1)
    IN  Document(chunk_text, m2)

\* The chunk Document built from the buffer cur that starts at 0-based line s.
MakeChunk(doc, cur, s) ==
    LET chunk_text   == RStrip(Join(cur))
        end_line_idx == s + Len(cur) - 1
        m1 == DictSet(doc.metadata, "start_line",
                      DictGet(doc.metadata, "start_line", s + 1))
        m2 == DictSet(m1, "end_line",
                      DictGet(m1, "end_line", end_line_idx + 1))
    IN  Document(chunk_text, m2)

\* Variant in which the chunk's metadata is the source's own dict, not a copy.
SourceSharingMeta(doc, chunk) == Document(doc.page_content, chunk.metadata)

\* The source Document after a chunk was built from it: meta = dict(d.metadata)
\* copies the dict, so that the assignments to meta do not reach the source.
SourceAfterChunk(doc, chunk) == doc

\* Variant that counts buffered lines instead of characters.
MustCloseByLineCount(cur, cur_len, extra, size) ==
    Len(cur) + 1 > size /\ cur # <<>>

\* The condition of the if inside the while loop.
MustClose(cur, cur_len, extra, size) == cur_len + extra > size /\ cur # <<>>

\* Locals at the top of the per-document loop body.
EnterSplit(doc) ==
    /\ d' = doc
    /\ lines' = SplitLines(doc.page_content)
    /\ current' = <<>>
    /\ current_len' = 0
    /\ start_line_idx' = 0
    /\ i' = 0
    /\ out' = <<>>

\* Model bound on the output of a run that keeps closing chunks: a run that
\* returns emits at most one chunk per line, a run that does not is followed
\* for MaxRepeats more closures.
ChunkCap == Len(lines) + MaxRepeats

\* One iteration of the while loop, then-branch: close the buffer as a chunk
\* and seed the next buffer with the overlap lines.
Close ==
    /\ pc = "scan"
    /\ i < Len(lines)
    /\ MustClose(current, current_len, Len(lines[i + 1]) + 1, self_chunk_size)
    /\ Len(out) < ChunkCap
    /\ out' = Append(out, MakeChunk(d, current, start_line_idx))
    /\ d' = SourceAfterChunk(d, MakeChunk(d, current, start_line_idx))
    /\ current' = OverlapLines(current, self_chunk_overlap)
    /\ current_len' = LenSum(current')
    /\ start_line_idx' = StartAfterCarry(i, current')
    /\ UNCHANGED <<self_chunk_size, self_chunk_overlap, lines, i, pc>>
    /\ UNCHANGED ingestVars

\* One iteration of the while loop, else-branch: take the line.
Take ==
    /\ pc = "scan"
    /\ i < Len(lines)
    /\ ~MustClose(current, current_len, Len(lines[i + 1]) + 1, self_chunk_size)
    /\ current' = Append(current, lines[i + 1])
    /\ current_len' = current_len + Len(lines[i + 1]) + 1
    /\ i' = i + 1
    /\ UNCHANGED <<self_chunk_size, self_chunk_overlap, d, lines,
                   start_line_idx, out, pc>>
    /\ UNCHANGED ingestVars

\* Loop exit: flush the remaining buffer and return out.
Flush ==
    /\ pc = "scan"
    /\ i >= Len(lines)
    /\ out' = IF current # <<>>
              THEN Append(out, MakeChunk(d, current, start_line_idx))
              ELSE out
    /\ d' = IF current # <<>>
            THEN SourceAfterChunk(d, MakeChunk(d, current, start_line_idx))
            ELSE d
    /\ pc' = "returned"
    /\ UNCHANGED <<self_chunk_size, self_chunk_overlap, lines, current,
                   current_len, start_line_idx, i>>
    /\ UNCHANGED ingestVars

(***************************************************************************)
(* SplitSpec: one call of split_documents([doc]) on an arbitrary bounded   *)
(* Document under an arbitrary bounded profile.  The TextSplitter base     *)
(* class rejects chunk_overlap > chunk_size in its constructor.            *)
(***************************************************************************)
PreLines == {9}

\* Metadata of the Document handed to the splitter: without line
\* annotations, or with start_line and/or end_line set by an upstream step.
SplitMetas ==
    {[kind |-> "code", relpath |-> <<"a">> \o ExtTs, components |-> ""]}
    \cup {[kind |-> "docs", relpath |-> <<"a">> \o ExtMd, components |-> "",
           start_line |-> s] : s \in PreLines}
    \cup {[kind |-> "docs", relpath |-> <<"a">> \o ExtMd, components |-> "",
           end_line |-> e] : e \in PreLines}
    \cup {[kind |-> "docs", relpath |-> <<"a">> \o ExtMd, components |-> "",
           start_line |-> s, end_line |-> e] : s \in PreLines, e \in PreLines}

SplitInit ==
    /\ self_chunk_size \in 1..MaxChunkChars
    /\ self_chunk_overlap \in 0..self_chunk_size
    /\ d \in {Document(t, m) : t \in Contents, m \in SplitMetas}
    /\ lines = SplitLines(d.page_content)
    /\ current = <<>>
    /\ current_len = 0
    /\ start_line_idx = 0
    /\ i = 0
    /\ out = <<>>
    /\ pc = "scan"
    /\ chunk_chars = self_chunk_size
    /\ chunk_overlap = self_chunk_overlap
    /\ dry_run = TRUE
    /\ all_docs = <<>>
    /\ chunks = <<>>
    /\ k = 0
    /\ nfiles = 0
    /\ db_created = FALSE
    /\ db_docs = <<>>
    /\ component_counts = EmptyDict
    /\ component_files = EmptyDict
    /\ docs_stats = EmptyDict
    /\ p = NoPath
    /\ example_dir = NoPath
    /\ retrieved = <<>>
    /\ context = <<>>

SplitNext == Close \/ Take \/ Flush

SplitSpec == SplitInit /\ [][SplitNext]_vars

(***************************************************************************)
(* Properties of split_documents (SplitSpec).                              *)
(***************************************************************************)
Returned == pc = "returned"

ValidProfile == 0 <= self_chunk_overlap /\ self_chunk_overlap < self_chunk_size

\* The source Document carries no line annotation of its own.
Unannotated ==
    "start_line" \notin DOMAIN d.metadata /\ "end_line" \notin DOMAIN d.metadata

OutChunks == {out[x] : x \in DOMAIN out}

StartLine(c) == c.metadata["start_line"]
EndLine(c) == c.metadata["end_line"]

\* Every line number of the source lies in the range of some chunk.
Covered ==
    \A n \in 1..Len(lines) :
        \E c \in OutChunks : StartLine(c) <= n /\ n <= EndLine(c)

\* The chunk's range lies inside the source.
RangeInSource(c) ==
    1 <= StartLine(c) /\ StartLine(c) <= EndLine(c) /\ EndLine(c) <= Len(lines)

\* The chunk's content is the right-trimmed join of the lines of its range.
ContentIsRange(c) ==
    /\ RangeInSource(c)
    /\ c.page_content = RStrip(Join(SubSeq(lines, StartLine(c), EndLine(c))))

\* A run that returned two chunks, the second one starting with carried lines.
CarriedRun ==
    /\ Returned /\ Unannotated /\ Len(out) >= 2
    /\ StartLine(out[2]) <= EndLine(out[1])

\* A step of the loop that closes a chunk.
CloseStep == pc = "scan" /\ pc' = "scan" /\ Len(out') = Len(out) + 1

\* The line at the scan position is taken by the iteration that follows.
LineAtHandTaken ==
    ~MustClose(current', current_len', Len(lines[i + 1]) + 1, self_chunk_size)

\* C1: under a profile with 0 <= chunk_overlap < chunk_chars every call of
\* split_documents returns.  The scan index i advances in every iteration
\* except a closure, and the iteration after a closure reads the same line
\* again: the call returns if and only if that line is then taken, so that at
\* most two iterations are spent on each line.
C1_SplitTerminates == [][(ValidProfile /\ CloseStep) => LineAtHandTaken]_vars

\* C2 as stated: whatever the Document, the ranges of the returned chunks
\* cover every line 1..N of the source.
C2_CoverageAnyDocument == Returned => Covered

\* C2 amended: for a Document without line annotations of its own, the ranges
\* of the returned chunks cover every line 1..N of the source.
C2_Coverage == (Returned /\ Unannotated) => Covered

C2_Witness == CarriedRun /\ Len(lines) >= 3

\* C3 as stated: whatever the Document, every chunk's content is the join of
\* the source lines start_line..end_line, right-trimmed.
C3_LineRangeAnyDocument == \A c \in OutChunks : ContentIsRange(c)

\* C3 amended: for a Document without line annotations of its own, every
\* chunk's content is the join of the source lines start_line..end_line,
\* right-trimmed; after a carry-over start_line is the first carried line.
C3_LineRange == Unannotated => \A c \in OutChunks : ContentIsRange(c)

C3_Witness ==
    /\ CarriedRun
    /\ out[2].page_content # Join(SubSeq(lines, StartLine(out[2]), EndLine(out[2])))

\* C4 as stated: whatever the Document, every chunk has
\* 1 <= start_line <= end_line <= N.
C4_RangeBoundsAnyDocument == \A c \in OutChunks : RangeInSource(c)

\* C4 amended: for a Document without line annotations of its own, every
\* chunk has 1 <= start_line <= end_line <= N.
C4_RangeBounds == Unannotated => \A c \in OutChunks : RangeInSource(c)

C4_Witness ==
    /\ Returned /\ Unannotated /\ Len(out) >= 2
    /\ EndLine(out[Len(out)]) = Len(lines)
    /\ StartLine(out[Len(out)]) = EndLine(out[Len(out)])

\* The chunk is one line that is longer than the target.
SingleOverlongLine(c) ==
    /\ Len(SplitLines(c.page_content)) = 1
    /\ Len(c.page_content) > self_chunk_size

LastLineLen(text) ==
    LET ls == SplitLines(text) IN IF ls = <<>> THEN 0 ELSE Len(ls[Len(ls)])

\* C5: a chunk that is not a single over-long line is at most chunk_chars plus
\* the length of one line (its last one) long.
C5_SoftSizeBound ==
    \A c \in OutChunks :
        \/ SingleOverlongLine(c)
        \/ Len(c.page_content) <= self_chunk_size + LastLineLen(c.page_content)

C5_Witness ==
    /\ Returned /\ Len(out) >= 2
    /\ \E c \in OutChunks :
           /\ Len(SplitLines(c.page_content)) >= 2
           /\ Len(c.page_content) = self_chunk_size - 1

IsSuffix(t, b) ==
    Len(t) <= Len(b) /\ t = SubSeq(b, Len(b) - Len(t) + 1, Len(b))

\* C6 as stated: the lines seeded after a closure are a suffix of the closed
\* buffer whose cumulative length stays within chunk_overlap.
C6_TailWithinOverlap ==
    [][CloseStep => /\ IsSuffix(current', current)
                    /\ LenSum(current') <= self_chunk_overlap]_vars

\* C6 amended: the lines seeded after a closure are the shortest suffix of the
\* closed buffer whose cumulative length reaches chunk_overlap (the whole
\* buffer when it is shorter): without its first line the tail stays under
\* chunk_overlap, so the tail exceeds chunk_overlap by less than one line.
C6_TailReachesOverlap ==
    [][CloseStep =>
         /\ IsSuffix(current', current)
         /\ (current' = <<>>) <=> (self_chunk_overlap = 0)
         /\ current' # <<>> => LenSum(Tail(current')) < self_chunk_overlap
         /\ LenSum(current') >= self_chunk_overlap \/ current' = current]_vars

C6_Witness ==
    /\ CarriedRun
    /\ EndLine(out[1]) - StartLine(out[2]) >= 1
    /\ StartLine(out[2]) > 1

OverlongLines == {n \in 1..Len(lines) : Len(lines[n]) > self_chunk_size}

\* Every over-long line of the source is whole in some chunk, up to the
\* right-trimming of the chunk.
OverlongLinesWhole ==
    \A n \in OverlongLines :
        \E c \in OutChunks : Contains(c.page_content, RStrip(lines[n]))

\* C7: a line longer than chunk_chars is emitted whole wherever it stands and
\* whatever follows it: when the scan reaches it, the buffer before it is
\* closed at most once and then the line is taken, and the returned chunks
\* hold it whole.
C7_OverlongLineEmitted ==
    /\ [](Returned => OverlongLinesWhole)
    /\ [][(ValidProfile /\ CloseStep /\ (i + 1) \in OverlongLines)
            => LineAtHandTaken]_vars

LineKeys == {"start_line", "end_line"}

\* C11: start_line and end_line that the source Document already carries take
\* precedence over the computed range: every chunk keeps them.
C11_PresetLinesKept ==
    \A c \in OutChunks :
        \A key \in LineKeys \cap DOMAIN d.metadata :
            c.metadata[key] = d.metadata[key]

\* A two-chunk run on a Document that carries a start_line of its own and no
\* end_line: the second chunk keeps the start_line and gets a computed
\* end_line.
C11_Witness ==
    /\ Returned /\ Len(out) >= 2
    /\ "start_line" \in DOMAIN d.metadata
    /\ "end_line" \notin DOMAIN d.metadata
    /\ StartLine(out[2]) = d.metadata["start_line"]
    /\ EndLine(out[2]) = Len(lines)

\* The two dicts have the same keys and values apart from the line keys.
SameOtherKeys(m, src) ==
    /\ DOMAIN m \ LineKeys = DOMAIN src \ LineKeys
    /\ \A key \in DOMAIN src \ LineKeys : m[key] = src[key]

\* C12: every chunk's metadata equals the source's on every key other than
\* start_line and end_line, and split_documents leaves the source Document
\* as it was.
C12_MetadataFrame ==
    /\ [](\A c \in OutChunks : SameOtherKeys(c.metadata, d.metadata))
    /\ [][pc = "scan" => d' = d]_vars

\* A run that returned chunks of a Document of kind docs.
C12_Witness ==
    /\ Returned /\ Len(out) >= 2
    /\ d.metadata["kind"] = "docs"
    /\ "relpath" \in DOMAIN out[2].metadata
    /\ "components" \in DOMAIN out[2].metadata

\* The ranges of the returned chunks follow one another from line 1 to the
\* last line of the source.
ConsecutiveRanges ==
    out # <<>> =>
        /\ StartLine(out[1]) = 1
        /\ \A x \in 1..(Len(out) - 1) :
               StartLine(out[x + 1]) = EndLine(out[x]) + 1
        /\ EndLine(out[Len(out)]) = Len(lines)

\* With chunk_overlap = 0 nothing is carried over a closure.
NoCarry ==
    (CloseStep /\ self_chunk_overlap = 0) => (current' = <<>> /\ current_len' = 0)

\* C13 as stated: with chunk_overlap = 0 the buffer is empty after every
\* closure and, whatever the Document, the ranges of its chunks are disjoint
\* and consecutive from line 1 to line N.
C13_ConsecutiveAnyDocument ==
    /\ [][NoCarry]_vars
    /\ []((Returned /\ self_chunk_overlap = 0) => ConsecutiveRanges)

\* C13 amended: with chunk_overlap = 0 the buffer is empty after every closure
\* and, for a Document without line annotations of its own, the ranges of its
\* chunks are disjoint and consecutive from line 1 to line N.
C13_Consecutive ==
    /\ [][NoCarry]_vars
    /\ []((Returned /\ self_chunk_overlap = 0 /\ Unannotated)
            => ConsecutiveRanges)

C13_Witness ==
    /\ Returned /\ Unannotated /\ self_chunk_overlap = 0
    /\ Len(out) >= 3
    /\ EndLine(out[1]) > StartLine(out[1])

(***************************************************************************)
(* Document builders (source.py, docs.py, examples.py) and the component   *)
(* registry they update.  Of the metadata the model keeps the keys that    *)
(* the chunking loop and the registry rules read: relpath, kind, ext,      *)
(* component, components.                                                  *)
(*                                                                         *)
(* A file is its path relative to the processed root, its text, and what   *)
(* the parsers outside of these scripts return on the text:                *)
(*   fm        the component field of frontmatter.loads(text), PyNone when *)
(*             the field is absent or the front matter does not parse      *)
(*   ast       the node texts that the tree-sitter queries capture         *)
(*   ast_fails parsing or querying throws                                  *)
(*   css       the tokens that the three stylesheet regexes capture        *)
(*   regex     the groups that the export regexes capture                  *)
(* whether reading it fails (unreadable), and whether its text is not a    *)
(* syntactically valid program of its language (invalid).                  *)
(***************************************************************************)
MaxFiles == 2

File(path, text) ==
    [relpath |-> path, text |-> text, fm |-> PyNone,
     ast |-> {}, ast_fails |-> FALSE, css |-> {}, regex |-> {},
     unreadable |-> FALSE, invalid |-> FALSE]

ThreeLines == <<"a", NL, "a", NL, "a">>

Paths ==
    { PropsTs,
      PropsTs \o <<"x">>,
      PropsTs \o ExtJs,
      PropsTs \o ExtMd,
      <<"p", "r", "o", "p", "s">> \o ExtTs,
      <<"a", ".", "T", "S">>,
      <<"a">> \o ExtMd }

\* Values of the front-matter component field.
FrontmatterValues ==
    { PyBool(TRUE), PyBool(FALSE), PyStr(<<>>), PyStr(<<"A">>),
      PyStr(<<"A", " ", "B">>), PyInt(5), PyList(<<PyStr(<<"A">>)>>) }

\* Documentation files with a component field in their front matter.
FrontmatterFiles ==
    {[File(<<"a">> \o ExtMd, <<"a">>) EXCEPT !.fm = val] :
        val \in FrontmatterValues}

\* Source files on which the extractors find names.
ExportingFiles ==
    { [File(<<"b">> \o ExtTs, <<"a">>)
          EXCEPT !.ast = {<<"A">>, <<"B">>}, !.regex = {<<"B">>}],
      [File(<<"b">> \o ExtTsx, <<"a">>)
          EXCEPT !.ast = {<<"$", "a">>}, !.regex = {<<"A">>}],
      [File(<<"b">> \o ExtJs, <<"a">>)
          EXCEPT !.ast_fails = TRUE, !.regex = {<<"B">>}, !.invalid = TRUE],
      \* the parser recovers from the syntax error and the export query
      \* still captures a name that the PascalCase regexes do not
      [File(<<"c">> \o ExtJsx, <<"a">>)
          EXCEPT !.ast = {<<"a">>}, !.invalid = TRUE],
      [File(<<"b">> \o ExtCss, <<"a">>) EXCEPT !.css = {<<"a", "-", "b">>}] }

\* Files on which p.read_text raises.
UnreadableFiles ==
    { [File(<<"c">> \o ExtTs, <<"a">>)
          EXCEPT !.ast = {<<"A">>}, !.unreadable = TRUE],
      [File(<<"c">> \o ExtMd, <<"a">>)
          EXCEPT !.fm = PyStr(<<"A">>), !.unreadable = TRUE] }

Files ==
    {File(path, <<"a">>) : path \in Paths}
    \cup {File(<<"a">> \o ExtJs, ThreeLines), File(<<"a">> \o ExtMd, <<>>)}
    \cup FrontmatterFiles
    \cup ExportingFiles
    \cup UnreadableFiles

DocExts == {ExtMd, ExtMdx}

\* What a processor call leaves behind: whether it raised, the Documents it
\* returned, and the registry and the docs statistics after the call.
Result(raised, docs, counts, files, stats) ==
    [raised |-> raised, docs |-> docs, component_counts |-> counts,
     component_files |-> files, docs_stats |-> stats]

\* Variant of the early return that counts the file as a page.
NoDocumentsCountingPage(counts, files, stats) ==
    Result(FALSE, <<>>, counts, files, DictSet(stats, "pages", 1))

\* The early "return docs" of a processor, with docs still empty: the file
\* cannot be read or has an extension that the processor does not take.
NoDocuments(counts, files, stats) ==
    Result(FALSE, <<>>, counts, files, stats)

\* infer_components_from_text: the captured groups that are PascalCase.
infer_components_from_text(f) == {g \in f.regex : IsPascalCase(g)}

\* extract_css_components: every captured token, converted to PascalCase.
extract_css_components(f) == {PascalCase(tok) : tok \in f.css}

\* The keys of PARSERS.
ParserExts == {ExtTs, ExtTsx, ExtJs, ExtJsx}

\* extract_components_with_ast: the captured node texts that are identifiers;
\* the regex extraction when parsing throws.
extract_components_with_ast(f, file_ext) ==
    IF file_ext \notin ParserExts THEN {}
    ELSE IF f.ast_fails THEN infer_components_from_text(f)
    ELSE {name \in f.ast : name # <<>> /\ IsIdentifier(name)}

\* Variant of the policy that tries the regex extraction first.
RegexFirst(f) ==
    LET ext == Lower(Suffix(f.relpath))
        components == IF ext \in ParserExts
                      THEN extract_components_with_ast(f, ext) ELSE {}
        css_components == IF ext \in {ExtCss, ExtScss}
                          THEN extract_css_components(f) ELSE {}
    IN  IF infer_components_from_text(f) # {}
        THEN infer_components_from_text(f)
        ELSE IF components # {} THEN components
        ELSE css_components

\* infer_components_from_text_enhanced: AST, then stylesheet, then regex.
infer_components_from_text_enhanced(f) ==
    LET ext == Lower(Suffix(f.relpath))
        components == IF ext \in ParserExts
                      THEN extract_components_with_ast(f, ext) ELSE {}
        css_components == IF ext \in {ExtCss, ExtScss}
                          THEN extract_css_components(f) ELSE {}
    IN  IF components # {} THEN components
        ELSE IF css_components # {} THEN css_components
        ELSE infer_components_from_text(f)

\* Variant of the loop body that counts every name as seen once.
RegisterRestarting(c, relpath, counts, files) ==
    [component_counts |-> DictSet(counts, c, 1),
     component_files |-> DictSet(files, c, {relpath})]

\* Variant of the loop body that counts the name without recording the file.
RegisterCountOnly(c, relpath, counts, files) ==
    [component_counts |-> DictSet(counts, c, DictGet(counts, c, 0) + 1),
     component_files |-> files]

\* The two assignments of the loop "for c in comp_list":
\* component_counts[c] = component_counts.get(c, 0) + 1 and
\* component_files.setdefault(c, set()).add(relpath)
Register(c, relpath, counts, files) ==
    [component_counts |-> DictSet(counts, c, DictGet(counts, c, 0) + 1),
     component_files |-> SetDefaultAdd(files, c, relpath)]

\* The loop "for c in comp_list" of both processors: every member that is a
\* string and no boolean is counted and its file recorded.
RECURSIVE RegisterAll(_, _, _, _)
RegisterAll(comp_list, relpath, counts, files) ==
    IF comp_list = <<>> THEN [component_counts |-> counts,
                              component_files |-> files]
    ELSE LET c == Head(comp_list)
             reg == Register(c, relpath, counts, files)
         IN  IF IsBoolObject(c) \/ ~IsStr(c)
             THEN RegisterAll(Tail(comp_list), relpath, counts, files)
             ELSE RegisterAll(Tail(comp_list), relpath,
                              reg.component_counts, reg.component_files)

\* Variant of the else branch that leaves the metadata as it is.
NoComponentsKeyOmitted(meta) == meta

\* The else branch of both processors: meta["components"] = "" when no name
\* was found.
NoComponents(meta) == DictSet(meta, "components", <<>>)

\* process_source_file: no Document for a documentation file, else one
\* Document of kind code with the whole text; the extracted names go to the
\* metadata and to the registry.
process_source_file(f, counts, files, stats) ==
    LET ext == Lower(Suffix(f.relpath))
        components == infer_components_from_text_enhanced(f)
        comp_list == Sorted(components)
        meta == [relpath |-> f.relpath, kind |-> "code", ext |-> ext]
        reg == RegisterAll([x \in DOMAIN comp_list |-> PyStr(comp_list[x])],
                           f.relpath, counts, files)
    IN  IF f.unreadable THEN NoDocuments(counts, files, stats)
        ELSE IF ext \in DocExts THEN NoDocuments(counts, files, stats)
        ELSE IF components # {}
        THEN Result(FALSE,
                    << Document(f.text,
                         DictSet(DictSet(meta, "component", comp_list[1]),
                                 "components", JoinComma(comp_list))) >>,
                    reg.component_counts, reg.component_files, stats)
        ELSE Result(FALSE,
                    << Document(f.text, NoComponents(meta)) >>,
                    counts, files, stats)

\* Variant of the front-matter rule that takes every truthy value.
FrontmatterCompsAnyTruthy(fm) == IF Truthy(fm) THEN {fm} ELSE {}

\* The set comps of process_documentation_file: the front-matter component
\* unless it is falsy or a boolean.
FrontmatterComps(fm) ==
    IF Truthy(fm) /\ ~IsBoolObject(fm) THEN {fm} ELSE {}

\* docs_stats[key] = docs_stats.get(key, 0) + 1
Increment(stats, key) == DictSet(stats, key, DictGet(stats, key, 0) + 1)

\* process_documentation_file: one Document of kind docs with the whole
\* text, for documentation files only.  comps.add raises on a value that is
\* not hashable, ", ".join raises on a member that is not a string.  Of
\* docs_stats the counters pages and sections are kept; titled_pages follows
\* the front-matter title, which the model leaves out.
process_documentation_file(f, counts, files, stats) ==
    LET ext == Lower(Suffix(f.relpath))
        comps == FrontmatterComps(f.fm)
        meta == [relpath |-> f.relpath, kind |-> "docs", ext |-> ext]
        reg == RegisterAll(<<f.fm>>, f.relpath, counts, files)
        stats2 == Increment(Increment(stats, "pages"), "sections")
    IN  IF f.unreadable THEN NoDocuments(counts, files, stats)
        ELSE IF ext \notin DocExts THEN NoDocuments(counts, files, stats)
        ELSE IF comps = {}
        THEN Result(FALSE,
                    << Document(f.text, NoComponents(meta)) >>,
                    counts, files, stats2)
        ELSE IF ~Hashable(f.fm) \/ ~IsStr(f.fm)
        THEN Result(TRUE, <<>>, counts, files, stats)
        ELSE Result(FALSE,
                    << Document(f.text,
                         DictSet(DictSet(meta, "component", f.fm.v),
                                 "components", JoinComma(<<f.fm.v>>))) >>,
                    reg.component_counts, reg.component_files, stats2)

(***************************************************************************)
(* Example projects (examples.py).  A project is the list of its files in  *)
(* directory order, with paths relative to the project, and the reply of   *)
(* the summarization model to the prompt built from README.md and          *)
(* package.json: "object" a JSON object, "blank" white space only,         *)
(* "invalid" text that json.loads rejects.                                 *)
(***************************************************************************)
Project(files, reply) == [files |-> files, reply |-> reply]

ReadmeMd == <<"R", "E", "A", "D", "M", "E", ".", "m", "d">>
PackageJson == <<"p", "a", "c", "k", "a", "g", "e", ".", "j", "s", "o", "n">>
ConfigTs == <<"a", ".", "c", "o", "n", "f", "i", "g", ".", "t", "s">>

Pkg == File(PackageJson, <<"a">>)

Projects ==
    { Project(<<Pkg>>, "object"),
      Project(<<File(ReadmeMd, <<"a">>)>>, "object"),
      Project(<<Pkg, File(PropsTs \o ExtJs, ThreeLines)>>, "object"),
      Project(<<Pkg, File(ConfigTs, <<"a">>)>>, "object"),
      Project(<<Pkg, File(<<"s", "r", "c", "/", "x", "/", "a", ".", "t", "s">>, <<"a">>)>>, "object"),
      Project(<<Pkg, File(<<".">> \o ExtTs, <<"a">>),
                File(<<"a">> \o ExtJs, <<SP, NL>>)>>, "object"),
      Project(<<File(<<"a">> \o ExtTs, <<"a">>)>>, "object"),
      Project(<<File(ReadmeMd, <<>>)>>, "object"),
      Project(<<File(ReadmeMd, <<"a">>)>>, "blank"),
      Project(<<Pkg, File(<<"a">> \o ExtTs, <<"a">>)>>, "invalid") }

\* The content read from the file of the project with that name, "" when
\* there is no such file.
ContentOf(project, name) ==
    LET hits == SelectSeq(project.files, LAMBDA f : f.relpath = name)
    IN  IF hits = <<>> THEN <<>> ELSE hits[1].text

\* Variant that raises for missing sources only.
SummaryRaisesOnMissingOnly(project) ==
    ContentOf(project, ReadmeMd) = <<>> /\ ContentOf(project, PackageJson) = <<>>

\* analyze_example_with_llm raises: neither README.md nor package.json has
\* content, the reply is blank, or the reply is no JSON.
SummaryRaises(project) ==
    \/ (ContentOf(project, ReadmeMd) = <<>>
        /\ ContentOf(project, PackageJson) = <<>>)
    \/ project.reply = "blank"
    \/ project.reply = "invalid"

\* Path.glob: a pattern matches a relative path; * stands for any run of
\* characters inside one path component, **/ for any number of directories.
RECURSIVE GlobMatch(_, _)
GlobMatch(pattern, path) ==
    IF pattern = <<>> THEN path = <<>>
    ELSE IF Len(pattern) >= 3 /\ SubSeq(pattern, 1, 3) = <<"*", "*", "/">>
    THEN \/ GlobMatch(SubSeq(pattern, 4, Len(pattern)), path)
         \/ \E cut \in DOMAIN path :
                /\ path[cut] = "/"
                /\ \A x \in 1..(cut - 1) : path[x] # "/"
                /\ GlobMatch(pattern, SubSeq(path, cut + 1, Len(path)))
    ELSE IF pattern[1] = "*"
    THEN \/ GlobMatch(Tail(pattern), path)
         \/ (path # <<>> /\ path[1] # "/" /\ GlobMatch(pattern, Tail(path)))
    ELSE path # <<>> /\ path[1] = pattern[1]
         /\ GlobMatch(Tail(pattern), Tail(path))

\* The two patterns added for each included extension other than .json.
RECURSIVE ExtPatterns(_)
ExtPatterns(exts) ==
    IF exts = <<>> THEN <<>>
    ELSE IF Head(exts) = ExtJson THEN ExtPatterns(Tail(exts))
    ELSE << <<"s", "r", "c", "/", "*", "*", "/", "*">> \o Head(exts),
            <<"*">> \o Head(exts) >> \o ExtPatterns(Tail(exts))

files_to_process ==
    <<PackageJson, ReadmeMd, <<"*", ".", "c", "o", "n", "f", "i", "g", ".", "*">> >>
    \o ExtPatterns(DEFAULT_INCLUDE_EXTS)

\* str(example_path.relative_to(project_root)) + "/" for the example project
\* ./examples/p
ExampleDir == <<"e", "x", "a", "m", "p", "l", "e", "s", "/", "p", "/">>

\* content.strip() is empty
IsBlank(text) == RStrip(text) = <<>>

\* The body of the two nested loops for one matched file: one Document of
\* kind example unless the file is a dot file or blank.
ExampleFileDocs(f) ==
    LET file_path == ExampleDir \o f.relpath
    IN  IF BaseName(file_path)[1] = "." \/ IsBlank(f.text) THEN <<>>
        ELSE << Document(f.text,
                   [relpath |-> file_path, kind |-> "example",
                    ext |-> Suffix(file_path), component |-> <<"n", "o", "n", "e">>]) >>

\* for file_path in example_path.glob(pattern)
RECURSIVE DocsOfFiles(_)
DocsOfFiles(files) ==
    IF files = <<>> THEN <<>>
    ELSE ExampleFileDocs(Head(files)) \o DocsOfFiles(Tail(files))

\* for pattern in files_to_process
RECURSIVE DocsOfPatterns(_, _)
DocsOfPatterns(project, patterns) ==
    IF patterns = <<>> THEN <<>>
    ELSE DocsOfFiles(SelectSeq(project.files,
                        LAMBDA f : GlobMatch(Head(patterns), f.relpath)))
         \o DocsOfPatterns(project, Tail(patterns))

\* process_example_project: the summarization comes first and its exception
\* leaves the function; then every pattern is globbed in turn.  The
\* registry is not touched.
process_example_project(project) ==
    IF SummaryRaises(project) THEN [raised |-> TRUE, docs |-> <<>>]
    ELSE [raised |-> FALSE,
          docs |-> DocsOfPatterns(project, files_to_process)]

(***************************************************************************)
(* ingest (run.py)                                                         *)
(***************************************************************************)

\* any(pattern in relpath for pattern in PROPS_FILE_PATTERNS)
IsPropsFile(relpath) ==
    \E n \in DOMAIN PROPS_FILE_PATTERNS :
        Contains(relpath, PROPS_FILE_PATTERNS[n])

\* Variant of the selector that tests the documentation rule before the
\* example rule.
SelectProfileDocsFirst(doc, default) ==
    LET ext  == Lower(DictGet(doc.metadata, "ext", <<>>))
        kind == DictGet(doc.metadata, "kind", "")
    IN  IF kind = "docs" \/ ext \in {ExtMd, ExtMdx}
        THEN <<DOCS_CHUNK_CHARS, DOCS_CHUNK_OVERLAP>>
        ELSE IF kind = "example"
        THEN <<EXAMPLE_CHUNK_CHARS, EXAMPLE_CHUNK_OVERLAP>>
        ELSE IF ext \in {ExtTs, ExtTsx}
        THEN <<TS_CHUNK_CHARS, TS_CHUNK_OVERLAP>>
        ELSE default

\* The (chunk_size, chunk_overlap) of the splitter that the elif chain of the
\* chunking loop uses for a Document that is not kept whole.
SelectProfile(doc, default) ==
    LET ext  == Lower(DictGet(doc.metadata, "ext", <<>>))
        kind == DictGet(doc.metadata, "kind", "")
    IN  IF kind = "example"
        THEN <<EXAMPLE_CHUNK_CHARS, EXAMPLE_CHUNK_OVERLAP>>
        ELSE IF kind = "docs" \/ ext \in {ExtMd, ExtMdx}
        THEN <<DOCS_CHUNK_CHARS, DOCS_CHUNK_OVERLAP>>
        ELSE IF ext \in {ExtTs, ExtTsx}
        THEN <<TS_CHUNK_CHARS, TS_CHUNK_OVERLAP>>
        ELSE default

\* Variant of the first rule that is applied to typed-source files only.
KeptWholeTypedOnly(doc) ==
    /\ IsPropsFile(DictGet(doc.metadata, "relpath", <<>>))
    /\ DictGet(doc.metadata, "kind", "") = "code"
    /\ Lower(DictGet(doc.metadata, "ext", <<>>)) \in {ExtTs, ExtTsx}

\* The first rule of the chunking loop: interface files are kept whole.
KeptWhole(doc) == IsPropsFile(DictGet(doc.metadata, "relpath", <<>>))

\* The (chunk_chars, chunk_overlap) arguments of ingest in the model: the
\* defaults of the command line, and small pairs that the constructor of the
\* default splitter accepts.  ingest hands them to LineAwareSplitter as they
\* come, and the TextSplitter base class rejects chunk_overlap > chunk_size
\* only.
IngestArgs ==
    {<<DEFAULT_CHUNK_CHARS, DEFAULT_CHUNK_OVERLAP>>}
    \cup {<<2, o>> : o \in {0, 2}}

IngestInit ==
    /\ \E args \in IngestArgs : chunk_chars = args[1] /\ chunk_overlap = args[2]
    /\ dry_run \in BOOLEAN
    /\ self_chunk_size = chunk_chars
    /\ self_chunk_overlap = chunk_overlap
    /\ all_docs = <<>>
    /\ chunks = <<>>
    /\ k = 0
    /\ nfiles = 0
    /\ db_created = FALSE
    /\ db_docs = <<>>
    /\ component_counts = EmptyDict
    /\ component_files = EmptyDict
    /\ docs_stats = EmptyDict
    /\ p = NoPath
    /\ example_dir = NoPath
    /\ retrieved = <<>>
    /\ context = <<>>
    /\ d = Document(<<>>, [kind |-> ""])
    /\ lines = <<>>
    /\ current = <<>>
    /\ current_len = 0
    /\ start_line_idx = 0
    /\ i = 0
    /\ out = <<>>
    /\ pc = "code"

\* Variant of the loop body that loses the batch on an exception.
ExtendDocsDroppingBatch(docs, result) ==
    IF result.raised THEN <<>> ELSE docs \o result.docs

\* The body of the loop of build_documents: docs.extend(processor(...)), and
\* on an exception a warning and the next file.
ExtendDocs(docs, result) ==
    IF result.raised THEN docs ELSE docs \o result.docs

\* process_root(r, "code") -> build_documents: one file of a code root is
\* handed to process_source_file.
BuildCode ==
    /\ pc = "code"
    /\ nfiles < MaxFiles
    /\ \E f \in Files :
          LET result == process_source_file(f, component_counts,
                                            component_files, docs_stats)
          IN  /\ p' = f
              /\ all_docs' = ExtendDocs(all_docs, result)
              /\ component_counts' = result.component_counts
              /\ component_files' = result.component_files
              /\ docs_stats' = result.docs_stats
    /\ nfiles' = nfiles + 1
    /\ UNCHANGED <<chunk_chars, chunk_overlap, dry_run, chunks, k,
                   db_created, db_docs, retrieveVars, example_dir, pc>>
    /\ UNCHANGED splitVars

\* The code roots are exhausted.
EndCode ==
    /\ pc = "code"
    /\ pc' = "docs"
    /\ p' = NoPath
    /\ UNCHANGED <<chunk_chars, chunk_overlap, dry_run, all_docs, chunks, k,
                   nfiles, db_created, db_docs, retrieveVars, registryVars,
                   example_dir>>
    /\ UNCHANGED splitVars

\* process_root(d, "docs") -> build_documents: one file of a docs root is
\* handed to process_documentation_file.
BuildDocs ==
    /\ pc = "docs"
    /\ nfiles < MaxFiles
    /\ \E f \in Files :
          LET result == process_documentation_file(f, component_counts,
                                                   component_files, docs_stats)
          IN  /\ p' = f
              /\ all_docs' = ExtendDocs(all_docs, result)
              /\ component_counts' = result.component_counts
              /\ component_files' = result.component_files
              /\ docs_stats' = result.docs_stats
    /\ nfiles' = nfiles + 1
    /\ UNCHANGED <<chunk_chars, chunk_overlap, dry_run, chunks, k,
                   db_created, db_docs, retrieveVars, example_dir, pc>>
    /\ UNCHANGED splitVars

\* The docs roots are exhausted.
EndDocs ==
    /\ pc = "docs"
    /\ pc' = "examples"
    /\ p' = NoPath
    /\ UNCHANGED <<chunk_chars, chunk_overlap, dry_run, all_docs, chunks, k,
                   nfiles, db_created, db_docs, retrieveVars, registryVars,
                   example_dir>>
    /\ UNCHANGED splitVars

\* One example project is handed to process_example_project; the call is not
\* guarded, so that its exception leaves ingest.
BuildExample ==
    /\ pc = "examples"
    /\ nfiles < MaxFiles
    /\ \E project \in Projects :
          LET result == process_example_project(project)
          IN  /\ example_dir' = project
              /\ all_docs' = all_docs \o result.docs
              /\ pc' = IF result.raised THEN "raised" ELSE "examples"
    /\ nfiles' = nfiles + 1
    /\ UNCHANGED <<chunk_chars, chunk_overlap, dry_run, chunks, k,
                   db_created, db_docs, retrieveVars, registryVars, p>>
    /\ UNCHANGED splitVars

\* The example projects are exhausted.
EndExamples ==
    /\ pc = "examples"
    /\ pc' = "chunk"
    /\ example_dir' = NoPath
    /\ UNCHANGED <<chunk_chars, chunk_overlap, dry_run, all_docs, chunks, k,
                   nfiles, db_created, db_docs, retrieveVars, registryVars, p>>
    /\ UNCHANGED splitVars

\* Loop "for doc in all_docs", first branch: the Document is kept whole.
ChunkWhole ==
    /\ pc = "chunk"
    /\ k < Len(all_docs)
    /\ KeptWhole(all_docs[k + 1])
    /\ chunks' = Append(chunks, all_docs[k + 1])
    /\ k' = k + 1
    /\ UNCHANGED <<chunk_chars, chunk_overlap, dry_run, all_docs, nfiles,
                   db_created, db_docs, retrieveVars, registryVars, loopVars,
                   pc>>
    /\ UNCHANGED splitVars

\* Loop "for doc in all_docs", other branches: split_documents([doc]) is
\* called on the splitter of the selected profile.
ChunkSplit ==
    /\ pc = "chunk"
    /\ k < Len(all_docs)
    /\ ~KeptWhole(all_docs[k + 1])
    /\ LET profile == SelectProfile(all_docs[k + 1],
                                    <<chunk_chars, chunk_overlap>>)
       IN  /\ self_chunk_size' = profile[1]
           /\ self_chunk_overlap' = profile[2]
    /\ EnterSplit(all_docs[k + 1])
    /\ pc' = "scan"
    /\ UNCHANGED ingestVars

\* split_documents has returned: chunks.extend(...)
Extend ==
    /\ pc = "returned"
    /\ chunks' = chunks \o out
    /\ k' = k + 1
    /\ pc' = "chunk"
    /\ UNCHANGED <<chunk_chars, chunk_overlap, dry_run, all_docs, nfiles,
                   db_created, db_docs, retrieveVars, registryVars, loopVars>>
    /\ UNCHANGED splitVars

\* add_documents hands a non-empty list to the vector store.
add_documents(store, documents) ==
    IF documents = <<>> THEN store ELSE store \o documents

\* After the loop, dry run: summary only.
DryRun ==
    /\ pc = "chunk"
    /\ k = Len(all_docs)
    /\ dry_run
    /\ pc' = "end"
    /\ UNCHANGED <<splitVars, ingestVars>>

\* Variant of the database write that does not look at dry_run.
WriteDbUnguarded ==
    /\ pc = "chunk"
    /\ k = Len(all_docs)
    /\ db_created' = TRUE
    /\ db_docs' = add_documents(db_docs, chunks)
    /\ pc' = "end"
    /\ UNCHANGED <<chunk_chars, chunk_overlap, dry_run, all_docs, chunks, k,
                   nfiles, registryVars, loopVars, retrieveVars>>
    /\ UNCHANGED splitVars

\* After the loop, otherwise: create_database and add_documents(chunks).
WriteDb ==
    /\ pc = "chunk"
    /\ k = Len(all_docs)
    /\ ~dry_run
    /\ db_created' = TRUE
    /\ db_docs' = add_documents(db_docs, chunks)
    /\ pc' = "end"
    /\ UNCHANGED <<chunk_chars, chunk_overlap, dry_run, all_docs, chunks, k,
                   nfiles, registryVars, loopVars, retrieveVars>>
    /\ UNCHANGED splitVars

(***************************************************************************)
(* Retrieval (retrieve.py): the Documents that the retriever returns from  *)
(* the vector database are rendered for the prompt.                        *)
(***************************************************************************)

\* The characters of a value of the kind key.
KindChars(kind) ==
    CASE kind = "code"    -> <<"c", "o", "d", "e">>
      [] kind = "docs"    -> <<"d", "o", "c", "s">>
      [] kind = "example" -> <<"e", "x", "a", "m", "p", "l", "e">>
      [] OTHER -> <<"u", "n", "k", "n", "o", "w", "n">>

\* if value: tag_parts.append(f"{label}{value}")
TagPart(label, value) ==
    IF value = <<>> THEN <<>> ELSE << label \o value >>

\* key_features.split(", ")
RECURSIVE SplitCommaFrom(_, _, _)
SplitCommaFrom(w, q, acc) ==
    IF q > Len(w) THEN <<acc>>
    ELSE IF q < Len(w) /\ w[q] = "," /\ w[q + 1] = " "
    THEN <<acc>> \o SplitCommaFrom(w, q + 2, <<>>)
    ELSE SplitCommaFrom(w, q + 1, Append(acc, w[q]))

\* ','.join(parts)
RECURSIVE JoinTight(_)
JoinTight(ls) ==
    IF ls = <<>> THEN <<>>
    ELSE IF Len(ls) = 1 THEN ls[1]
    ELSE ls[1] \o <<",">> \o JoinTight(Tail(ls))

\* The tag parts that format_docs adds for a Document of kind example.  The
\* keys are those of the summarization, which the Documents of this model
\* do not carry.
ExampleTagParts(meta) ==
    LET key_features == DictGet(meta, "key_features", <<>>)
        features == SplitCommaFrom(key_features, 1, <<>>)
    IN  TagPart(<<"e", "x", "a", "m", "p", "l", "e", "=">>,
                DictGet(meta, "example_type", <<>>))
        \o TagPart(<<"b", "u", "i", "l", "d", "=">>,
                   DictGet(meta, "build_tool", <<>>))
        \o TagPart(<<"f", "r", "a", "m", "e", "w", "o", "r", "k", "=">>,
                   DictGet(meta, "framework", <<>>))
        \o TagPart(<<"c", "o", "m", "p", "l", "e", "x", "i", "t", "y", "=">>,
                   DictGet(meta, "complexity", <<>>))
        \o TagPart(<<"f", "i", "l", "e", "_", "t", "y", "p", "e", "=">>,
                   DictGet(meta, "file_type", <<>>))
        \o (IF key_features = <<>> THEN <<>>
            ELSE << <<"f", "e", "a", "t", "u", "r", "e", "s", "=">>
                    \o JoinTight(SubSeq(features, 1,
                           IF Len(features) < 3 THEN Len(features) ELSE 3)) >>)

\* tag = f"[{', '.join(tag_parts)}]"
Tag(meta) ==
    LET kind == DictGet(meta, "kind", "unknown")
        tag_parts ==
            << KindChars(kind) >>
            \o TagPart(<<>>, DictGet(meta, "ext", <<>>))
            \o TagPart(<<"c", "o", "m", "p", "o", "n", "e", "n", "t", "=">>,
                       DictGet(meta, "component", <<>>))
            \o (IF kind = "example" THEN ExampleTagParts(meta) ELSE <<>>)
    IN  <<"[">> \o JoinComma(tag_parts) \o <<"]">>

\* "-" * 80
Rule == [x \in 1..80 |-> "-"]

\* The three lines that format_docs appends for one Document: the source
\* line f"- {rel}{tag}]", the content and the rule.
SourceBlock(doc) ==
    << <<"-", " ">> \o DictGet(doc.metadata, "relpath",
                          <<"u", "n", "k", "n", "o", "w", "n">>)
           \o Tag(doc.metadata) \o <<"]">>,
       <<"C", "o", "n", "t", "e", "n", "t", ":", NL>> \o doc.page_content,
       Rule >>

RECURSIVE SourceBlocks(_)
SourceBlocks(docs) ==
    IF docs = <<>> THEN <<>>
    ELSE SourceBlock(Head(docs)) \o SourceBlocks(Tail(docs))

\* format_docs: "\n".join(lines)
format_docs(docs) == Join(SourceBlocks(docs))

\* A question is asked after ingest has written the database: the retriever
\* returns Documents of the database and format_docs renders them.
Retrieve ==
    /\ pc = "end"
    /\ db_created
    /\ \E x \in DOMAIN db_docs : retrieved' = << db_docs[x] >>
    /\ context' = format_docs(retrieved')
    /\ pc' = "asked"
    /\ UNCHANGED <<chunk_chars, chunk_overlap, dry_run, all_docs, chunks, k,
                   nfiles, db_created, db_docs, registryVars, loopVars>>
    /\ UNCHANGED splitVars

Init == IngestInit

Next ==
    \/ BuildCode \/ EndCode
    \/ BuildDocs \/ EndDocs
    \/ BuildExample \/ EndExamples
    \/ ChunkWhole \/ ChunkSplit
    \/ Close \/ Take \/ Flush
    \/ Extend
    \/ DryRun \/ WriteDb
    \/ Retrieve

Spec == Init /\ [][Next]_vars

(***************************************************************************)
(* Properties of ingest (Spec).                                            *)
(***************************************************************************)

\* The loop "for doc in all_docs" stands at a Document whose relpath matches
\* an interface-file pattern.
AtPropsDoc ==
    /\ pc = "chunk"
    /\ k < Len(all_docs)
    /\ IsPropsFile(all_docs[k + 1].metadata["relpath"])

\* C8: a Document whose relpath matches PROPS_FILE_PATTERNS yields exactly one
\* chunk, the Document itself, whatever its size, kind and extension: the loop
\* appends it and goes on to the next Document without calling a splitter.
C8_PropsFileKeptWhole ==
    [][AtPropsDoc => /\ chunks' = Append(chunks, all_docs[k + 1])
                     /\ k' = k + 1
                     /\ pc' = "chunk"]_vars

\* A multi-line interface file of kind example, longer than the default
\* target, has just been appended whole.
C8_Witness ==
    /\ pc = "chunk"
    /\ k >= 1
    /\ IsPropsFile(all_docs[k].metadata["relpath"])
    /\ all_docs[k].metadata["kind"] = "example"
    /\ all_docs[k].metadata["ext"] = ExtJs
    /\ Len(all_docs[k].page_content) > chunk_chars
    /\ Len(SplitLines(all_docs[k].page_content)) > 1
    /\ chunks # <<>>
    /\ chunks[Len(chunks)] = all_docs[k]

\* C9: every chunk handed to the vector store carries relpath, start_line and
\* end_line in its metadata.
C9_StoredChunksCitable ==
    \A x \in DOMAIN db_docs :
        {"relpath", "start_line", "end_line"} \subseteq DOMAIN db_docs[x].metadata

\* The profile that the ordered policy names for a Document, from its kind
\* and ext as they stand in the metadata.
PolicyProfile(doc) ==
    CASE doc.metadata["kind"] = "example" -> <<10000, 1000>>
      [] doc.metadata["kind"] # "example"
         /\ (doc.metadata["kind"] = "docs" \/ doc.metadata["ext"] \in {ExtMd, ExtMdx})
            -> <<8000, 800>>
      [] doc.metadata["kind"] \notin {"example", "docs"}
         /\ doc.metadata["ext"] \notin {ExtMd, ExtMdx}
         /\ doc.metadata["ext"] \in {ExtTs, ExtTsx}
            -> <<6000, 600>>
      [] OTHER -> <<chunk_chars, chunk_overlap>>

\* C10: a Document that is not kept whole is split under the first matching
\* profile of the ordered policy (example, docs, typed source, default), which
\* depends on its (relpath, kind, ext) only.
C10_ProfileByPolicy ==
    pc \in {"scan", "returned"} =>
        /\ ~IsPropsFile(d.metadata["relpath"])
        /\ d = all_docs[k + 1]
        /\ <<self_chunk_size, self_chunk_overlap>> = PolicyProfile(d)

\* An example Document with a documentation extension has been split under
\* the example profile.
C10_Witness ==
    /\ pc = "returned"
    /\ d.metadata["kind"] = "example"
    /\ d.metadata["ext"] = ExtMd
    /\ self_chunk_size = 10000
    /\ self_chunk_overlap = 1000

\* C14: every profile under which ingest splits a Document - the example,
\* docs and typed-source profiles and the default (chunk_chars, chunk_overlap)
\* of the caller - satisfies 0 <= overlap < target.
C14_ProfilesValid ==
    pc \in {"scan", "returned"} =>
        (0 <= self_chunk_overlap /\ self_chunk_overlap < self_chunk_size)

\* A step of the loop of build_documents, on the file p'.
BuildStep == pc \in {"code", "docs"} /\ nfiles' = nfiles + 1

\* The file is a documentation file whose front-matter component is truthy,
\* no boolean and no string: the processor of the docs roots raises on it.
ComponentNotAString(f) ==
    /\ Lower(Suffix(f.relpath)) \in DocExts
    /\ Truthy(f.fm) /\ ~IsBoolObject(f.fm) /\ ~IsStr(f.fm)

IsPrefix(a, b) == Len(a) <= Len(b) /\ a = SubSeq(b, 1, Len(a))

\* C15: an exception raised while build_documents processes a file does not
\* end the batch: the file contributes no Document, the loop goes on with
\* the next file, and the Documents of the earlier files stay in the result.
C15_FileErrorSkipped ==
    [][BuildStep =>
         /\ pc' = pc
         /\ IsPrefix(all_docs, all_docs')
         /\ (pc = "docs" /\ ComponentNotAString(p')) => all_docs' = all_docs]_vars

\* A documentation file with a number as its component has raised after a
\* Document was built from an earlier file.
C15_Witness ==
    /\ pc = "docs"
    /\ ComponentNotAString(p)
    /\ p.fm = PyInt(5)
    /\ Len(all_docs) = 1
    /\ nfiles = 2

\* A step of the loop over ./examples, on the project example_dir'.
ExampleStep == pc = "examples" /\ nfiles' = nfiles + 1

\* The summarization of the project fails: there is nothing to summarize, or
\* the reply is blank or no JSON.
SummarizationFails(project) ==
    \/ \A x \in DOMAIN project.files :
           project.files[x].relpath \in {ReadmeMd, PackageJson}
               => project.files[x].text = <<>>
    \/ project.reply \in {"blank", "invalid"}

\* C16: a summarization failure ends the processing of that project only:
\* the run goes on with the next project, with the Documents built so far.
C16_SummaryFailureLocal ==
    [][(ExampleStep /\ SummarizationFails(example_dir'))
         => (pc' = "examples" /\ all_docs' = all_docs)]_vars

\* C17: when the summarization of a project fails, process_example_project
\* raises and no Document of that project is produced.
C17_NoDocumentWithoutSummary ==
    [][(ExampleStep /\ SummarizationFails(example_dir'))
         => /\ process_example_project(example_dir').raised
            /\ process_example_project(example_dir').docs = <<>>
            /\ all_docs' = all_docs]_vars

\* A project with package.json and a source file, whose summary was no JSON,
\* has raised after Documents were built from other roots.
C17_Witness ==
    /\ pc = "raised"
    /\ example_dir.reply = "invalid"
    /\ Len(example_dir.files) = 2
    /\ all_docs # <<>>
    /\ \A x \in DOMAIN all_docs : all_docs[x].metadata["kind"] # "example"

\* The files of the project that a pattern matches and that are neither dot
\* files nor blank.
EmittedFiles(project) ==
    {f \in {project.files[x] : x \in DOMAIN project.files} :
        /\ \E n \in DOMAIN files_to_process :
               GlobMatch(files_to_process[n], f.relpath)
        /\ BaseName(f.relpath)[1] # "."
        /\ ~IsBlank(f.text)}

\* The Documents are one for each emitted file of the project.
OneDocumentPerFile(project, docs) ==
    /\ Len(docs) = Cardinality(EmittedFiles(project))
    /\ \A f \in EmittedFiles(project) :
           Cardinality({x \in DOMAIN docs :
               docs[x].metadata["relpath"] = ExampleDir \o f.relpath}) = 1

\* C18: a summarized example project yields exactly one Document for each
\* matched file that is neither a dot file nor blank, also for a file that
\* more than one pattern matches.
C18_OneDocumentPerFile ==
    [][(ExampleStep /\ pc' = "examples")
         => OneDocumentPerFile(example_dir',
                SubSeq(all_docs', Len(all_docs) + 1, Len(all_docs')))]_vars

\* C19: every key of component_counts and of component_files is a non-empty
\* identifier-shaped string.
C19_RegistryKeysIdentifiers ==
    \A key \in (DOMAIN component_counts) \cup (DOMAIN component_files) :
        IsStr(key) /\ IsIdentifier(key.v)

\* The file is a documentation file whose front-matter component is a
\* boolean.
ComponentIsBoolean(f) ==
    Lower(Suffix(f.relpath)) \in DocExts /\ IsBoolObject(f.fm)

\* C20: a documentation file whose front-matter component is true or false
\* yields one Document with components = "" and without a component key, and
\* the registry stays as it was.
C20_BooleanComponentDiscarded ==
    [][(BuildStep /\ pc = "docs" /\ ComponentIsBoolean(p'))
         => /\ Len(all_docs') = Len(all_docs) + 1
            /\ all_docs'[Len(all_docs')].page_content = p'.text
            /\ all_docs'[Len(all_docs')].metadata["components"] = <<>>
            /\ "component" \notin DOMAIN all_docs'[Len(all_docs')].metadata
            /\ component_counts' = component_counts
            /\ component_files' = component_files]_vars

\* A documentation file with component: true has been processed while the
\* registry held names of a source file.
C20_Witness ==
    /\ pc = "docs"
    /\ ComponentIsBoolean(p)
    /\ p.fm = PyBool(TRUE)
    /\ all_docs[Len(all_docs)].metadata["kind"] = "docs"
    /\ DOMAIN component_counts # {}

\* The Document is of kind code or docs.
BuilderDocument(doc) == doc.metadata["kind"] \in {"code", "docs"}

HasComponents(doc) == "components" \in DOMAIN doc.metadata

\* C21: every Document of kind code or docs has the key components in its
\* metadata, and so has every chunk derived from it: the Documents that the
\* builders returned, the chunks of the split at hand, the chunks collected
\* so far and the chunks handed to the vector store.
C21_ComponentsAlwaysPresent ==
    /\ \A x \in DOMAIN all_docs :
           BuilderDocument(all_docs[x]) => HasComponents(all_docs[x])
    /\ \A x \in DOMAIN out : BuilderDocument(out[x]) => HasComponents(out[x])
    /\ \A x \in DOMAIN chunks :
           BuilderDocument(chunks[x]) => HasComponents(chunks[x])
    /\ \A x \in DOMAIN db_docs :
           BuilderDocument(db_docs[x]) => HasComponents(db_docs[x])

\* Two chunks of a code Document without names were handed to the vector
\* store, next to a chunk of a Document with names.
C21_Witness ==
    /\ pc = "end"
    /\ \E x, y \in DOMAIN db_docs :
           /\ x # y
           /\ db_docs[x].metadata["kind"] = "code"
           /\ db_docs[x].metadata["components"] = <<>>
           /\ "start_line" \in DOMAIN db_docs[x].metadata
           /\ db_docs[y].metadata["relpath"] = db_docs[x].metadata["relpath"]
    /\ \E x \in DOMAIN db_docs :
           /\ BuilderDocument(db_docs[x])
           /\ db_docs[x].metadata["components"] # <<>>

\* The names that the processor of the running phase finds in the file: the
\* extracted names of a source file in a code root, the front-matter
\* component of a documentation file in a docs root when it is a string;
\* none in a file that cannot be read.
YieldedNames(phase, f) ==
    LET isDoc == Lower(Suffix(f.relpath)) \in DocExts
    IN  IF f.unreadable THEN {}
        ELSE IF phase = "code" /\ ~isDoc
        THEN {PyStr(n) : n \in infer_components_from_text_enhanced(f)}
        ELSE IF phase = "docs" /\ isDoc /\ IsStr(f.fm) /\ Truthy(f.fm)
        THEN {f.fm}
        ELSE {}

\* No count decreases and no file set loses a member.
RegistryGrows ==
    /\ DOMAIN component_counts \subseteq DOMAIN component_counts'
    /\ DOMAIN component_files \subseteq DOMAIN component_files'
    /\ \A n \in DOMAIN component_counts :
           component_counts'[n] >= component_counts[n]
    /\ \A n \in DOMAIN component_files :
           component_files[n] \subseteq component_files'[n]

\* The registry after the step is the registry before it, with one more
\* occurrence and the relpath of the file for each name of S.
RegisteredOnce(S, relpath) ==
    /\ DOMAIN component_counts' = DOMAIN component_counts \cup S
    /\ DOMAIN component_files' = DOMAIN component_files \cup S
    /\ \A n \in S :
           /\ component_counts'[n] = DictGet(component_counts, n, 0) + 1
           /\ component_files'[n] =
                  DictGet(component_files, n, {}) \cup {relpath}
    /\ \A n \in (DOMAIN component_counts) \ S :
           component_counts'[n] = component_counts[n]
    /\ \A n \in (DOMAIN component_files) \ S :
           component_files'[n] = component_files[n]

\* C22: the registry only accumulates within a run, and processing one file
\* that yields the name set S adds one occurrence and the file's relpath for
\* each name of S and leaves every other entry as it was.
C22_RegistryAccumulates ==
    [][/\ RegistryGrows
       /\ BuildStep => RegisteredOnce(YieldedNames(pc, p'), p'.relpath)]_vars

\* A name was found in two files.
C22_Witness ==
    \E n \in DOMAIN component_counts :
        /\ component_counts[n] = 2
        /\ Cardinality(component_files[n]) = 2
        /\ Cardinality(DOMAIN component_counts) = 2

IsDocFile(f) == Lower(Suffix(f.relpath)) \in DocExts

\* docs is one Document of that kind with the whole text of the file.
OneWholeDocument(docs, kind, f) ==
    /\ Len(docs) = 1
    /\ docs[1].metadata["kind"] = kind
    /\ docs[1].page_content = f.text

\* What the processor of the phase is to return for the file.
ReturnsByExtension(phase, f, docs) ==
    IF (phase = "code") = IsDocFile(f) THEN docs = <<>>
    ELSE OneWholeDocument(docs, phase, f)

\* C23: for a file that can be read, the code processor returns no Document
\* for a documentation extension and one Document of kind code with the whole
\* text otherwise, the docs processor one Document of kind docs with the
\* whole text for a documentation extension and none otherwise; every code
\* Document has a non-documentation ext and every docs Document a
\* documentation ext.
C23_DocumentsByExtension ==
    /\ [][(BuildStep /\ ~p'.unreadable)
            => ReturnsByExtension(pc, p',
                   SubSeq(all_docs', Len(all_docs) + 1, Len(all_docs')))]_vars
    /\ [](\A x \in DOMAIN all_docs :
             /\ all_docs[x].metadata["kind"] = "code"
                    => all_docs[x].metadata["ext"] \notin DocExts
             /\ all_docs[x].metadata["kind"] = "docs"
                    => all_docs[x].metadata["ext"] \in DocExts)

\* A build step of the code processor on a readable file of the JS/TS family.
JsTsStep ==
    /\ BuildStep
    /\ pc = "code"
    /\ ~p'.unreadable
    /\ Lower(Suffix(p'.relpath)) \in ParserExts

\* The step returned one Document that lists exactly the names of S.
ReturnedNames(S) ==
    /\ Len(all_docs') = Len(all_docs) + 1
    /\ all_docs'[Len(all_docs')].metadata["components"] = JoinComma(Sorted(S))

\* The identifier-shaped captures of the structural queries.
Structural(f) == {name \in f.ast : name # <<>> /\ IsIdentifier(name)}

\* C24: for a JS/TS file the names are the structural result when the parse
\* does not throw and that result is not empty, and the result of the regex
\* extraction otherwise; the call always returns.
C24_FirstNonEmptyWins ==
    [][JsTsStep
        => ReturnedNames(IF ~p'.ast_fails /\ Structural(p') # {}
                         THEN Structural(p')
                         ELSE infer_components_from_text(p'))]_vars

\* A file whose parse throws has been processed and carries the regex names,
\* and so has one whose structural result won over a different regex result.
C24_Witness ==
    /\ pc = "code"
    /\ Len(all_docs) = 2
    /\ \E x, y \in DOMAIN all_docs :
          /\ all_docs[x].metadata["relpath"] = <<"b">> \o ExtJs
          /\ all_docs[x].metadata["components"] = <<"B">>
          /\ all_docs[y].metadata["relpath"] = <<"b">> \o ExtTs
          /\ all_docs[y].metadata["components"] = <<"A", ",", " ", "B">>

\* C25: for a syntactically invalid JS/TS file the names are exactly those of
\* the regex extraction on the same text, and the call returns.
C25_InvalidFileFallsBack ==
    [][(JsTsStep /\ p'.invalid)
        => ReturnedNames(infer_components_from_text(p'))]_vars

\* str(n) for the line numbers of the model.
RECURSIVE IntStr(_)
IntStr(n) ==
    LET digit == <<"0", "1", "2", "3", "4", "5", "6", "7", "8", "9">>
    IN  IF n < 10 THEN << digit[n + 1] >>
        ELSE IntStr(n \div 10) \o << digit[(n % 10) + 1] >>

\* relpath:start_line-end_line
Citation(meta) ==
    meta["relpath"] \o <<":">> \o IntStr(meta["start_line"])
        \o <<"-">> \o IntStr(meta["end_line"])

\* C26: the text that format_docs renders for a retrieved chunk with line
\* annotations contains relpath:start_line-end_line followed by the tag
\* block that starts with the kind.
C26_CitationRendered ==
    pc = "asked" =>
        \A x \in DOMAIN retrieved :
            LineKeys \subseteq DOMAIN retrieved[x].metadata
                => Contains(context,
                       Citation(retrieved[x].metadata) \o <<"[">>
                           \o KindChars(retrieved[x].metadata["kind"]))

\* C27: in a dry run no database is created and nothing is added to one, and
\* the run ends after the chunk loop; the database is created and written
\* only in a run that is not dry, in the step that follows the chunking of
\* the last Document.
C27_DryRunWritesNothing ==
    /\ [](dry_run => (~db_created /\ db_docs = <<>>))
    /\ [][(dry_run /\ pc = "chunk" /\ k = Len(all_docs))
            => (pc' = "end" /\ chunks' = chunks)]_vars
    /\ [][(db_created' # db_created \/ db_docs' # db_docs)
            => (/\ ~dry_run
                /\ pc = "chunk"
                /\ k = Len(all_docs)
                /\ db_docs' = chunks)]_vars

\* A dry run has ended with chunks in hand and no database.
C27_Witness ==
    /\ dry_run
    /\ pc = "end"
    /\ Len(chunks) >= 2
    /\ ~db_created
    /\ db_docs = <<>>

\* The ranges of the chunks advance: start and end grow strictly from one
\* chunk to the next and no line is left out between two chunks.
RangesAdvance ==
    \A x \in 1..(Len(out) - 1) :
        /\ StartLine(out[x + 1]) > StartLine(out[x])
        /\ EndLine(out[x + 1]) > EndLine(out[x])
        /\ StartLine(out[x + 1]) <= EndLine(out[x]) + 1

\* C28: the chunks that split_documents returns for a Document without line
\* annotations of its own are in source order without a gap: start_line and
\* end_line grow strictly from each chunk to the next, and a chunk starts
\* no later than the line after the end of the chunk before it.
C28_SourceOrderNoGap == (Returned /\ Unannotated) => RangesAdvance

\* A run with a carry returned three chunks, the second of which starts
\* inside the first.
C28_Witness ==
    /\ Returned /\ Unannotated
    /\ self_chunk_overlap > 0
    /\ Len(out) >= 3
    /\ StartLine(out[2]) <= EndLine(out[1])

\* C29: component_counts and component_files have the same keys, and every
\* name has at least one file and no more files than occurrences.
C29_RegistryConsistent ==
    /\ DOMAIN component_counts = DOMAIN component_files
    /\ \A n \in DOMAIN component_counts :
           /\ 1 <= Cardinality(component_files[n])
           /\ Cardinality(component_files[n]) <= component_counts[n]

\* A name was found twice under the same relpath: two occurrences, one file.
C29_Witness ==
    \E n \in DOMAIN component_counts :
        component_counts[n] = 2 /\ Cardinality(component_files[n]) = 1

\* C30: a call of a processor that adds no Document (a file of the other
\* family, a file that cannot be read, a call that raises) leaves
\* component_counts, component_files and docs_stats as they were.
C30_NoDocumentNoEffect ==
    [][(BuildStep /\ all_docs' = all_docs) => UNCHANGED registryVars]_vars

\* After a file that was registered and counted, the docs processor raised
\* on a file, or was given a file that it cannot read or does not take.
C30_Witness ==
    /\ pc = "docs"
    /\ Len(all_docs) = 1
    /\ nfiles = 2
    /\ DOMAIN component_counts # {}
    /\ DOMAIN docs_stats # {}
    /\ \/ ComponentNotAString(p)
       \/ p.unreadable
       \/ ~IsDocFile(p)

====
